---- MODULE Spec2Model ----
(***************************************************************************)
(* A model of the go-pop3 client: the Connection framer of textproto.go    *)
(* (SendCMD, ReadResponse, ReadMultiLines, Close) and the Client command   *)
(* layer of pop3.go (NewClient, UseTimeouts, User ... UidlAll, and the     *)
(* deadline helpers).                                                      *)
(*                                                                         *)
(* A string is a sequence of one-character strings.  The stream is the     *)
(* sequence of lines the server has put on the wire and the client has not *)
(* read yet; each wire line is kept without its final LF and may still end *)
(* in CR.  Lines are far shorter than the 4096 byte buffer of the          *)
(* bufio.Reader, so Reader.ReadLine always returns a whole line.           *)
(***************************************************************************)
EXTENDS Integers, Sequences, FiniteSets, TLC

VARIABLES
    client,     \* "unborn" before NewClient, then "ready" or "nil"
    timeout,    \* Client.timeout: 0, or 1 for any positive duration
    conn,       \* the net.Conn with the bufio.Reader in front of it
    reply,      \* what the server did on each command of the most recent call
    ret,        \* what the most recent call returned
    calls       \* number of calls made so far

vars == <<client, timeout, conn, reply, ret, calls>>

----------------------------------------------------------------------------
(* Bounds *)

MaxCalls == 3
MaxText == 3
MaxBodyLineLen == 2
MaxBody == 2

----------------------------------------------------------------------------
(* Strings *)

okResponse == <<"+", "O", "K">>
endResponse == <<".">>
InvalidServerResponse ==
    <<"I","n","v","a","l","i","d"," ","s","e","r","v","e","r"," ",
      "r","e","s","p","o","n","s","e">>

\* s[i:] of Go, i counted from 0; only used with i <= len(s)
From(s, i) == SubSeq(s, i + 1, Len(s))

\* s[0:n] of Go; only used with n <= len(s)
Upto(s, n) == SubSeq(s, 1, n)

SeqsUpTo(S, n) == UNION { [1..k -> S] : k \in 0..n }

----------------------------------------------------------------------------
(* Errors: the Go error values the package can return *)

Nil == [type |-> "nil", msg |-> <<>>]

\* errors.New(text)
ErrorsNew(text) == [type |-> "errorString", msg |-> text]

\* what Reader.ReadLine returns when the stream fails
ErrEOF == [type |-> "net", msg |-> <<"E","O","F">>]
ErrTimeout == [type |-> "net", msg |-> <<"t","i","m","e","o","u","t">>]

\* *strconv.NumError of strconv.Atoi
ErrSyntax == [type |-> "NumError", msg |-> <<>>]

IsTransport(e) == e.type = "net"

----------------------------------------------------------------------------
(* The stream: net.Conn and the bufio.Reader of the Connection *)

\* conn.in       lines on the wire, not yet read
\* conn.late     lines the server sends only after the armed deadline passed
\* conn.broken   the peer or the network dropped the connection
\* conn.deadline an absolute deadline is armed (SetDeadline of a non-zero time)
\* conn.closes   number of Close calls made on the stream
\* conn.nread    lines read from the stream so far
NewConn(lines, broken) ==
    [in |-> lines, late |-> <<>>, broken |-> broken, deadline |-> FALSE,
     closes |-> 0, nread |-> 0]

\* bufio.Reader.ReadLine drops the line end: LF, with a CR before it if any
StripCR(raw) ==
    IF Len(raw) > 0 /\ raw[Len(raw)] = "\r" THEN Upto(raw, Len(raw) - 1) ELSE raw

\* One c.Reader.ReadLine().  With nothing to read the call fails when the
\* stream is closed or broken, times out when a deadline is armed, and
\* otherwise blocks for ever ("hang").
ReaderReadLine(c) ==
    IF c.in # <<>>
    THEN [st |-> "ok", line |-> StripCR(Head(c.in)), err |-> Nil,
          c |-> [c EXCEPT !.in = Tail(c.in), !.nread = c.nread + 1]]
    ELSE IF c.closes > 0 \/ c.broken
    THEN [st |-> "ok", line |-> <<>>, err |-> ErrEOF, c |-> c]
    ELSE IF c.deadline
    THEN [st |-> "ok", line |-> <<>>, err |-> ErrTimeout, c |-> c]
    ELSE [st |-> "hang", line |-> <<>>, err |-> Nil, c |-> c]

----------------------------------------------------------------------------
(* textproto.go *)

\* Connection.Close
Close(c) == [c EXCEPT !.closes = c.closes + 1]

\* ReadResponse taking the reply text from one character too early
ReadResponseOffByOne(c) ==
    LET r == ReaderReadLine(c)
        line == r.line
    IN  IF r.st # "ok"
        THEN [st |-> r.st, result |-> <<>>, err |-> Nil, c |-> r.c]
        ELSE IF r.err # Nil
        THEN [st |-> "ok", result |-> <<>>, err |-> r.err, c |-> r.c]
        ELSE IF Len(line) < 3
        THEN [st |-> "fault", result |-> <<>>, err |-> Nil, c |-> r.c]
        ELSE IF Upto(line, 3) # okResponse /\ Len(line) < 5
        THEN [st |-> "fault", result |-> <<>>, err |-> Nil, c |-> r.c]
        ELSE [st |-> "ok",
              result |-> IF Len(line) >= 4 THEN From(line, 3) ELSE <<>>,
              err |-> IF Upto(line, 3) # okResponse
                      THEN ErrorsNew(From(line, 5)) ELSE Nil,
              c |-> r.c]

\* Connection.ReadResponse.  st is "ok" when the call returns, "fault" when
\* a slice expression is out of range (a run-time panic), "hang" when the
\* read blocks for ever.
ReadResponse(c) ==
    LET r == ReaderReadLine(c)
        line == r.line
    IN  IF r.st # "ok"
        THEN [st |-> r.st, result |-> <<>>, err |-> Nil, c |-> r.c]
        ELSE IF r.err # Nil
        THEN [st |-> "ok", result |-> <<>>, err |-> r.err, c |-> r.c]
        ELSE IF Len(line) < 3
        THEN [st |-> "fault", result |-> <<>>, err |-> Nil, c |-> r.c]
        ELSE IF Upto(line, 3) # okResponse /\ Len(line) < 5
        THEN [st |-> "fault", result |-> <<>>, err |-> Nil, c |-> r.c]
        ELSE [st |-> "ok",
              result |-> IF Len(line) >= 4 THEN From(line, 4) ELSE <<>>,
              err |-> IF Upto(line, 3) # okResponse
                      THEN ErrorsNew(From(line, 5)) ELSE Nil,
              c |-> r.c]

\* The loop of Connection.ReadMultiLines, with the lines collected so far
RECURSIVE ReadMultiLinesLoop(_, _)
ReadMultiLinesLoop(c, lines) ==
    LET r == ReaderReadLine(c)
        line == r.line
    IN  IF r.st # "ok"
        THEN [st |-> r.st, lines |-> lines, err |-> Nil, c |-> r.c]
        ELSE IF r.err # Nil \/ line = endResponse
        THEN [st |-> "ok", lines |-> lines, err |-> r.err, c |-> r.c]
        ELSE ReadMultiLinesLoop(r.c,
                Append(lines,
                       IF Len(line) > 0 /\ line[1] = "." THEN From(line, 1)
                       ELSE line))

\* ReadMultiLines looking for the end of the body after un-stuffing the line
RECURSIVE EndTestAfterUnstuffLoop(_, _)
EndTestAfterUnstuffLoop(c, lines) ==
    LET r == ReaderReadLine(c)
        line == IF Len(r.line) > 0 /\ r.line[1] = "." /\ r.line # endResponse
                THEN From(r.line, 1) ELSE r.line
    IN  IF r.st # "ok"
        THEN [st |-> r.st, lines |-> lines, err |-> Nil, c |-> r.c]
        ELSE IF r.err # Nil \/ line = endResponse
        THEN [st |-> "ok", lines |-> lines, err |-> r.err, c |-> r.c]
        ELSE EndTestAfterUnstuffLoop(r.c, Append(lines, line))

ReadMultiLinesEndTestAfterUnstuff(c) == EndTestAfterUnstuffLoop(c, <<>>)

\* Connection.ReadMultiLines
ReadMultiLines(c) == ReadMultiLinesLoop(c, <<>>)

\* Connection.SendCMD: the command line goes out in one Flush; a write on a
\* closed or broken stream fails and the failure is dropped.  rep is what
\* the server does on receiving the line: rep.now are the lines it sends at
\* once, rep.late the lines it sends too late for the armed deadline, and
\* rep.drop says that the connection breaks after rep.now.
SendCMD(c, rep) ==
    IF c.closes > 0 \/ c.broken THEN c
    ELSE [c EXCEPT !.in = c.in \o rep.now, !.late = c.late \o rep.late,
                   !.broken = rep.drop]

\* Connection.Cmd
Cmd(c, rep) == ReadResponse(SendCMD(c, rep))

----------------------------------------------------------------------------
(* strings.Fields and strconv.Atoi, as pop3.go uses them *)

IsSpace(ch) == ch \in {" ", "\t", "\r", "\n"}

RECURSIVE FieldsLoop(_, _, _, _)
FieldsLoop(s, i, cur, acc) ==
    IF i > Len(s) THEN (IF cur = <<>> THEN acc ELSE Append(acc, cur))
    ELSE IF IsSpace(s[i])
    THEN FieldsLoop(s, i + 1, <<>>, IF cur = <<>> THEN acc ELSE Append(acc, cur))
    ELSE FieldsLoop(s, i + 1, Append(cur, s[i]), acc)

\* strings.Fields
Fields(s) == FieldsLoop(s, 1, <<>>, <<>>)

Digits == {"0", "1", "2", "3", "4", "5", "6", "7", "8", "9"}

DigitVal(ch) ==
    CASE ch = "0" -> 0 [] ch = "1" -> 1 [] ch = "2" -> 2 [] ch = "3" -> 3
      [] ch = "4" -> 4 [] ch = "5" -> 5 [] ch = "6" -> 6 [] ch = "7" -> 7
      [] ch = "8" -> 8 [] ch = "9" -> 9

Half == 65536

\* The magnitude of a digit string as <<hi, lo>>, value hi * 2^16 + lo
RECURSIVE Magnitude(_, _, _, _)
Magnitude(s, i, hi, lo) ==
    IF i > Len(s) THEN <<hi, lo>>
    ELSE LET l == lo * 10 + DigitVal(s[i])
         IN  Magnitude(s, i + 1, hi * 10 + l \div Half, l % Half)

\* strconv.Atoi: an optional sign, then one or more decimal digits.  The
\* fields of the model are too short to leave the range of a 64 bit int.
Atoi(s) ==
    LET signed == Len(s) > 0 /\ s[1] \in {"+", "-"}
        ds == IF signed THEN Tail(s) ELSE s
    IN  IF ds = <<>> \/ \E i \in 1..Len(ds) : ds[i] \notin Digits
        THEN [ok |-> FALSE, neg |-> FALSE, mag |-> <<0, 0>>]
        ELSE [ok |-> TRUE, neg |-> signed /\ s[1] = "-",
              mag |-> Magnitude(ds, 1, 0, 0)]

\* uint32(val): the low 32 bits of val in two's complement, as <<hi, lo>>
\* with both halves in 0..65535
Uint32(neg, mag) ==
    LET h == mag[1] % Half
        l == mag[2]
    IN  IF ~neg THEN <<h, l>>
        ELSE IF l = 0 THEN <<(Half - h) % Half, 0>>
        ELSE <<Half - 1 - h, Half - l>>

Zero == <<0, 0>>

\* stringToUint32
stringToUint32(intString) ==
    LET a == Atoi(intString)
    IN  IF ~a.ok THEN [val |-> Zero, err |-> ErrSyntax]
        ELSE [val |-> Uint32(a.neg, a.mag), err |-> Nil]

----------------------------------------------------------------------------
(* pop3.go: the deadline helpers and the commands.  Each command operator   *)
(* takes the stream c, the configured timeout t and the server's behaviour  *)
(* rep, and yields the stream afterwards with what the method returned:     *)
(* st ("ok": it returned; "fault": it panicked; "hang": it blocks for       *)
(* ever), err, val (the results other than err) and cmds (the command       *)
(* lines it handed to SendCMD).                                             *)

\* Client.setDeadline
setDeadline(c, t) == IF t > 0 THEN [c EXCEPT !.deadline = TRUE] ELSE c

\* Client.resetDeadline
resetDeadline(c, t) == IF t > 0 THEN [c EXCEPT !.deadline = FALSE] ELSE c

Out(c, st, err, val, cmds) ==
    [c |-> c, st |-> st, err |-> err, val |-> val, cmds |-> cmds]

\* The body shared by User, Pass, Dele, Noop and Rset:
\* setDeadline; _, err = Cmd(...); resetDeadline; return
Simple(c, t, rep, verb) ==
    LET r == Cmd(setDeadline(c, t), rep)
    IN  IF r.st # "ok" THEN Out(r.c, r.st, Nil, <<>>, <<verb>>)
        ELSE Out(resetDeadline(r.c, t), "ok", r.err, <<>>, <<verb>>)

\* Client.User
User(c, t, rep) == Simple(c, t, rep, "USER")

\* Client.Pass
Pass(c, t, rep) == Simple(c, t, rep, "PASS")

\* Client.Dele
Dele(c, t, rep) == Simple(c, t, rep, "DELE")

\* Client.Noop
Noop(c, t, rep) == Simple(c, t, rep, "NOOP")

\* Client.Rset
Rset(c, t, rep) == Simple(c, t, rep, "RSET")

\* Lines the server sent too late for the deadline are on the wire by the
\* time the caller acts again.
Deliver(c) == [c EXCEPT !.in = c.in \o c.late, !.late = <<>>]

\* Auth going on to PASS whatever USER returned
AuthAlwaysSendsPass(c, t, rep1, rep2) ==
    LET u == User(c, t, rep1)
    IN  IF u.st # "ok" THEN u
        ELSE LET p == Pass(Deliver(u.c), t, rep2)
             IN  [p EXCEPT !.cmds = u.cmds \o p.cmds]

\* Client.Auth
Auth(c, t, rep1, rep2) ==
    LET u == User(c, t, rep1)
    IN  IF u.st # "ok" \/ u.err # Nil THEN u
        ELSE LET p == Pass(Deliver(u.c), t, rep2)
             IN  [p EXCEPT !.cmds = u.cmds \o p.cmds]

\* Client.Stat
Stat(c, t, rep) ==
    LET r == Cmd(setDeadline(c, t), rep)
        parts == Fields(r.result)
        count == stringToUint32(parts[1])
        size == stringToUint32(parts[2])
        cmds == <<"STAT">>
    IN  IF r.st # "ok" THEN Out(r.c, r.st, Nil, <<>>, cmds)
        ELSE IF r.err # Nil THEN Out(r.c, "ok", r.err, <<Zero, Zero>>, cmds)
        ELSE IF Len(parts) < 1 THEN Out(r.c, "fault", Nil, <<>>, cmds)
        ELSE IF count.err # Nil
        THEN Out(r.c, "ok", ErrorsNew(InvalidServerResponse), <<Zero, Zero>>, cmds)
        ELSE IF Len(parts) < 2 THEN Out(r.c, "fault", Nil, <<>>, cmds)
        ELSE IF size.err # Nil
        THEN Out(r.c, "ok", ErrorsNew(InvalidServerResponse), <<Zero, Zero>>, cmds)
        ELSE Out(resetDeadline(r.c, t), "ok", Nil, <<count.val, size.val>>, cmds)

\* Client.List
List(c, t, rep) ==
    LET r == Cmd(setDeadline(c, t), rep)
        fields == Fields(r.result)
        size == stringToUint32(fields[2])
        cmds == <<"LIST n">>
    IN  IF r.st # "ok" THEN Out(r.c, r.st, Nil, <<>>, cmds)
        ELSE IF r.err # Nil THEN Out(r.c, "ok", r.err, <<Zero>>, cmds)
        ELSE IF Len(fields) < 2 THEN Out(r.c, "fault", Nil, <<>>, cmds)
        ELSE IF size.err # Nil
        THEN Out(r.c, "ok", ErrorsNew(InvalidServerResponse), <<Zero>>, cmds)
        ELSE Out(resetDeadline(r.c, t), "ok", Nil, <<size.val>>, cmds)

\* A slot of a []*MessageInfo: a nil pointer, or a MessageInfo
NilInfo == [nil |-> TRUE, Seq |-> Zero, Size |-> Zero, Uid |-> <<>>]
MessageInfo(seq, size, uid) ==
    [nil |-> FALSE, Seq |-> seq, Size |-> size, Uid |-> uid]

\* The for loop of Client.ListAll from index i on (counted from 1)
RECURSIVE ListAllLoop(_, _, _)
ListAllLoop(lines, i, msgInfos) ==
    IF i > Len(lines) THEN [st |-> "ok", err |-> Nil, msgInfos |-> msgInfos]
    ELSE LET fields == Fields(lines[i])
             seq == stringToUint32(fields[1])
             size == stringToUint32(fields[2])
         IN  IF Len(fields) < 1
             THEN [st |-> "fault", err |-> Nil, msgInfos |-> msgInfos]
             ELSE IF seq.err # Nil
             THEN [st |-> "ok", err |-> seq.err, msgInfos |-> msgInfos]
             ELSE IF Len(fields) < 2
             THEN [st |-> "fault", err |-> Nil, msgInfos |-> msgInfos]
             ELSE IF size.err # Nil
             THEN [st |-> "ok", err |-> size.err, msgInfos |-> msgInfos]
             ELSE ListAllLoop(lines, i + 1,
                    [msgInfos EXCEPT ![i] = MessageInfo(seq.val, size.val, <<>>)])

\* ListAll starting its loop one line late
ListAllSkipsFirstLine(c, t, rep) ==
    LET r == Cmd(setDeadline(c, t), rep)
        m == ReadMultiLines(r.c)
        p == ListAllLoop(m.lines, 2, [i \in 1..Len(m.lines) |-> NilInfo])
        cmds == <<"LIST">>
    IN  IF r.st # "ok" THEN Out(r.c, r.st, Nil, <<>>, cmds)
        ELSE IF r.err # Nil THEN Out(r.c, "ok", r.err, <<>>, cmds)
        ELSE IF m.st # "ok" THEN Out(m.c, m.st, Nil, <<>>, cmds)
        ELSE IF m.err # Nil THEN Out(m.c, "ok", m.err, <<>>, cmds)
        ELSE IF p.st # "ok" THEN Out(m.c, p.st, Nil, <<>>, cmds)
        ELSE IF p.err # Nil THEN Out(m.c, "ok", p.err, p.msgInfos, cmds)
        ELSE Out(resetDeadline(m.c, t), "ok", Nil, p.msgInfos, cmds)

\* Client.ListAll
ListAll(c, t, rep) ==
    LET r == Cmd(setDeadline(c, t), rep)
        m == ReadMultiLines(r.c)
        p == ListAllLoop(m.lines, 1, [i \in 1..Len(m.lines) |-> NilInfo])
        cmds == <<"LIST">>
    IN  IF r.st # "ok" THEN Out(r.c, r.st, Nil, <<>>, cmds)
        ELSE IF r.err # Nil THEN Out(r.c, "ok", r.err, <<>>, cmds)
        ELSE IF m.st # "ok" THEN Out(m.c, m.st, Nil, <<>>, cmds)
        ELSE IF m.err # Nil THEN Out(m.c, "ok", m.err, <<>>, cmds)
        ELSE IF p.st # "ok" THEN Out(m.c, p.st, Nil, <<>>, cmds)
        ELSE IF p.err # Nil THEN Out(m.c, "ok", p.err, p.msgInfos, cmds)
        ELSE Out(resetDeadline(m.c, t), "ok", Nil, p.msgInfos, cmds)

\* The separator of the wire in place of the one of the result
lineSeparatorCRLF == <<"\r", "\n">>

lineSeparator == <<"\n">>

\* strings.Join
RECURSIVE Join(_, _)
Join(elems, sep) ==
    IF elems = <<>> THEN <<>>
    ELSE IF Len(elems) = 1 THEN elems[1]
    ELSE elems[1] \o sep \o Join(Tail(elems), sep)

\* Retr reading a body whatever the status line said
RetrIgnoresStatus(c, t, rep) ==
    LET r == Cmd(setDeadline(c, t), rep)
        m == ReadMultiLines(r.c)
        cmds == <<"RETR">>
    IN  IF r.st # "ok" THEN Out(r.c, r.st, Nil, <<>>, cmds)
        ELSE IF IsTransport(r.err) THEN Out(r.c, "ok", r.err, <<>>, cmds)
        ELSE IF m.st # "ok" THEN Out(m.c, m.st, Nil, <<>>, cmds)
        ELSE Out(resetDeadline(m.c, t), "ok",
                 IF r.err # Nil THEN r.err ELSE m.err,
                 Join(m.lines, lineSeparator), cmds)

\* Client.Retr
Retr(c, t, rep) ==
    LET r == Cmd(setDeadline(c, t), rep)
        m == ReadMultiLines(r.c)
        cmds == <<"RETR">>
    IN  IF r.st # "ok" THEN Out(r.c, r.st, Nil, <<>>, cmds)
        ELSE IF r.err # Nil THEN Out(r.c, "ok", r.err, <<>>, cmds)
        ELSE IF m.st # "ok" THEN Out(m.c, m.st, Nil, <<>>, cmds)
        ELSE Out(resetDeadline(m.c, t), "ok", m.err,
                 Join(m.lines, lineSeparator), cmds)

\* Quit closing the stream whatever the server answered
QuitAlwaysCloses(c, t, rep) ==
    LET r == Cmd(setDeadline(c, t), rep)
        cmds == <<"QUIT">>
    IN  IF r.st # "ok" THEN Out(r.c, r.st, Nil, <<>>, cmds)
        ELSE Out(Close(r.c), "ok", r.err, <<>>, cmds)

\* Client.Quit
Quit(c, t, rep) ==
    LET r == Cmd(setDeadline(c, t), rep)
        cmds == <<"QUIT">>
    IN  IF r.st # "ok" THEN Out(r.c, r.st, Nil, <<>>, cmds)
        ELSE IF r.err # Nil THEN Out(r.c, "ok", r.err, <<>>, cmds)
        ELSE Out(Close(r.c), "ok", Nil, <<>>, cmds)

\* Client.Uidl
Uidl(c, t, rep) ==
    LET r == Cmd(setDeadline(c, t), rep)
        fields == Fields(r.result)
        cmds == <<"UIDL n">>
    IN  IF r.st # "ok" THEN Out(r.c, r.st, Nil, <<>>, cmds)
        ELSE IF r.err # Nil THEN Out(r.c, "ok", r.err, <<>>, cmds)
        ELSE IF Len(fields) < 2 THEN Out(r.c, "fault", Nil, <<>>, cmds)
        ELSE Out(resetDeadline(r.c, t), "ok", Nil, fields[2], cmds)

\* The for loop of Client.UidlAll from index i on (counted from 1)
RECURSIVE UidlAllLoop(_, _, _)
UidlAllLoop(lines, i, msgInfos) ==
    IF i > Len(lines) THEN [st |-> "ok", err |-> Nil, msgInfos |-> msgInfos]
    ELSE LET fields == Fields(lines[i])
             seq == stringToUint32(fields[1])
         IN  IF Len(fields) < 1
             THEN [st |-> "fault", err |-> Nil, msgInfos |-> msgInfos]
             ELSE IF seq.err # Nil
             THEN [st |-> "ok", err |-> seq.err, msgInfos |-> msgInfos]
             ELSE IF Len(fields) < 2
             THEN [st |-> "fault", err |-> Nil, msgInfos |-> msgInfos]
             ELSE UidlAllLoop(lines, i + 1,
                    [msgInfos EXCEPT ![i] = MessageInfo(seq.val, Zero, fields[2])])

\* Client.UidlAll
UidlAll(c, t, rep) ==
    LET r == Cmd(setDeadline(c, t), rep)
        m == ReadMultiLines(setDeadline(r.c, t))
        p == UidlAllLoop(m.lines, 1, [i \in 1..Len(m.lines) |-> NilInfo])
        cmds == <<"UIDL">>
    IN  IF r.st # "ok" THEN Out(r.c, r.st, Nil, <<>>, cmds)
        ELSE IF r.err # Nil THEN Out(r.c, "ok", r.err, <<>>, cmds)
        ELSE IF m.st # "ok" THEN Out(m.c, m.st, Nil, <<>>, cmds)
        ELSE IF m.err # Nil THEN Out(m.c, "ok", m.err, <<>>, cmds)
        ELSE IF p.st # "ok" THEN Out(m.c, p.st, Nil, <<>>, cmds)
        ELSE IF p.err # Nil THEN Out(m.c, "ok", p.err, p.msgInfos, cmds)
        ELSE Out(resetDeadline(m.c, t), "ok", Nil, p.msgInfos, cmds)

\* NewClient handing out the client whatever the greeting was
NewClientKeepsClient(c) ==
    LET r == ReadResponse(setDeadline(c, 0))
    IN  IF r.st # "ok" THEN Out(r.c, r.st, Nil, "nil", <<>>)
        ELSE Out(resetDeadline(r.c, 0), "ok", r.err, "ready", <<>>)

\* NewClient: the greeting is read with timeout 0, the value of a fresh Client
NewClient(c) ==
    LET r == ReadResponse(setDeadline(c, 0))
    IN  IF r.st # "ok" THEN Out(r.c, r.st, Nil, "nil", <<>>)
        ELSE IF r.err # Nil THEN Out(resetDeadline(r.c, 0), "ok", r.err, "nil", <<>>)
        ELSE Out(resetDeadline(r.c, 0), "ok", Nil, "ready", <<>>)

----------------------------------------------------------------------------
(* The server and the network *)

EolStyles == {"CRLF", "LF"}

\* A line as it travels, without the final LF
Wire(line, eol) == IF eol = "CRLF" THEN Append(line, "\r") ELSE line

\* Byte-stuffing: a body line that starts with "." gets one more
DotStuff(line) ==
    IF Len(line) > 0 /\ line[1] = "." THEN <<".">> \o line ELSE line

\* A multi-line body on the wire: the stuffed lines, then the lone "."
WireBody(body, eol) ==
    [i \in 1..Len(body) |-> Wire(DotStuff(body[i]), eol)]
        \o <<Wire(endResponse, eol)>>

\* The server's own reading of its status line
Positive(status) == Len(status) >= 3 /\ Upto(status, 3) = okResponse

\* The verbs whose positive reply carries a body
MultiLine == {"LIST", "UIDL", "RETR"}

\* How the lines of one reply can reach the client: all of them; the first
\* k and then the connection breaks; or, with a deadline in force, none of
\* them before the deadline and all of them after it.
Transmissions(full, dl) ==
    {[now |-> full, late |-> <<>>, drop |-> FALSE]}
    \cup {[now |-> Upto(full, k), late |-> <<>>, drop |-> TRUE] :
            k \in 0..Len(full)}
    \cup (IF dl THEN {[now |-> <<>>, late |-> full, drop |-> FALSE]} ELSE {})

Silence == [now |-> <<>>, late |-> <<>>, drop |-> FALSE]

\* A command that never reached the server
Unheard == [status |-> <<>>, body |-> <<>>, rep |-> Silence]

\* One reply per command: a status line out of srv.S and, after a positive
\* status of a multi-line verb, a body out of srv.B, with the line ends of
\* one of the styles srv.E.  On a closed or broken stream the command never
\* reaches the server.  An exchange records the status line and the body
\* the server composed (each as a sequence of at most one element) and how
\* the encoded lines travelled (rep).
Exchanges(srv, verb, c, t) ==
    IF c.closes > 0 \/ c.broken THEN {Unheard}
    ELSE UNION { UNION { UNION {
            {[status |-> <<s>>, body |-> <<b>>, rep |-> x] :
                x \in Transmissions(<<Wire(s, eol)>> \o WireBody(b, eol),
                                    t > 0 \/ c.deadline)}
            : b \in IF verb \in MultiLine /\ Positive(s) THEN srv.B ELSE {} }
            \cup
            {[status |-> <<s>>, body |-> <<>>, rep |-> x] :
                x \in IF verb \in MultiLine /\ Positive(s) THEN {}
                      ELSE Transmissions(<<Wire(s, eol)>>, t > 0 \/ c.deadline)}
            : s \in srv.S } : eol \in srv.E }

----------------------------------------------------------------------------
(* Inputs of the session specification *)

ch_sp == " "
L_OK == okResponse
L_OK_1_2 == <<"+","O","K",ch_sp,"1",ch_sp,"2">>
L_ERR_no == <<"-","E","R","R",ch_sp,"n","o">>
L_ERR == <<"-","E","R","R">>
L_1_2 == <<"1",ch_sp,"2">>
L_a_1 == <<"a",ch_sp,"1">>
L_dot_a == <<".","a">>
L_OK_a_b == <<"+","O","K",ch_sp,"a",ch_sp,"b">>

Session ==
    [S |-> {L_OK_1_2, L_OK_a_b, L_OK, L_ERR_no, L_ERR},
     B |-> {<<>>, <<L_1_2>>, <<L_1_2, L_a_1>>, <<L_dot_a, L_1_2>>},
     E |-> {"CRLF"}]

----------------------------------------------------------------------------
(* The session: one client used by one caller *)

\* ret.pending is the number of unread lines the call found on the wire
NoRet ==
    [op |-> "none", st |-> "ok", err |-> Nil, val |-> <<>>, cmds |-> <<>>,
     pending |-> 0]

Init ==
    /\ client = "unborn"
    /\ timeout = 0
    /\ \E g \in Session.S, eol \in Session.E :
         \E x \in Transmissions(<<Wire(g, eol)>>, FALSE) :
            /\ conn = NewConn(x.now, x.drop)
            /\ reply = <<[status |-> <<g>>, body |-> <<>>, rep |-> x]>>
    /\ ret = NoRet
    /\ calls = 0

\* The caller may act: it holds a client and its last call returned
Ready == client = "ready" /\ ret.st = "ok" /\ calls < MaxCalls

\* The stream as a call finds it
Fresh(c) == [c EXCEPT !.nread = 0]

Returns(op, out) ==
    /\ conn' = Deliver(out.c)
    /\ ret' = [op |-> op, st |-> out.st, err |-> out.err, val |-> out.val,
               cmds |-> out.cmds, pending |-> Len(conn.in)]
    /\ calls' = calls + 1

DoNewClient ==
    /\ client = "unborn" /\ ret.op = "none"
    /\ LET out == NewClient(Fresh(conn))
       IN  /\ client' = IF out.st = "ok" THEN out.val ELSE client
           /\ conn' = out.c
           /\ ret' = [op |-> "NewClient", st |-> out.st, err |-> out.err,
                      val |-> <<>>, cmds |-> out.cmds, pending |-> Len(conn.in)]
    /\ UNCHANGED <<timeout, reply, calls>>

\* Client.UseTimeouts
UseTimeouts ==
    /\ client = "ready" /\ ret.st = "ok"
    /\ \E t \in {0, 1} : t # timeout /\ timeout' = t
    /\ UNCHANGED <<client, conn, reply, ret, calls>>

DoUser(srv) ==
    /\ Ready
    /\ \E x \in Exchanges(srv, "USER", conn, timeout) :
         /\ Returns("User", User(Fresh(conn), timeout, x.rep))
         /\ reply' = <<x>>
    /\ UNCHANGED <<client, timeout>>

DoPass(srv) ==
    /\ Ready
    /\ \E x \in Exchanges(srv, "PASS", conn, timeout) :
         /\ Returns("Pass", Pass(Fresh(conn), timeout, x.rep))
         /\ reply' = <<x>>
    /\ UNCHANGED <<client, timeout>>

\* Auth makes up to two exchanges; the second one starts from the stream as
\* User left it
DoAuth(srv) ==
    /\ Ready
    /\ \E x1 \in Exchanges(srv, "USER", conn, timeout) :
         LET u == User(Fresh(conn), timeout, x1.rep)
         IN  IF u.st # "ok" \/ u.err # Nil
             THEN /\ Returns("Auth", Auth(Fresh(conn), timeout, x1.rep, Silence))
                  /\ reply' = <<x1>>
             ELSE \E x2 \in Exchanges(srv, "PASS", Deliver(u.c), timeout) :
                  /\ Returns("Auth", Auth(Fresh(conn), timeout, x1.rep, x2.rep))
                  /\ reply' = <<x1, x2>>
    /\ UNCHANGED <<client, timeout>>

DoStat(srv) ==
    /\ Ready
    /\ \E x \in Exchanges(srv, "STAT", conn, timeout) :
         /\ Returns("Stat", Stat(Fresh(conn), timeout, x.rep))
         /\ reply' = <<x>>
    /\ UNCHANGED <<client, timeout>>

DoList(srv) ==
    /\ Ready
    /\ \E x \in Exchanges(srv, "LIST n", conn, timeout) :
         /\ Returns("List", List(Fresh(conn), timeout, x.rep))
         /\ reply' = <<x>>
    /\ UNCHANGED <<client, timeout>>

DoListAll(srv) ==
    /\ Ready
    /\ \E x \in Exchanges(srv, "LIST", conn, timeout) :
         /\ Returns("ListAll", ListAll(Fresh(conn), timeout, x.rep))
         /\ reply' = <<x>>
    /\ UNCHANGED <<client, timeout>>

DoRetr(srv) ==
    /\ Ready
    /\ \E x \in Exchanges(srv, "RETR", conn, timeout) :
         /\ Returns("Retr", Retr(Fresh(conn), timeout, x.rep))
         /\ reply' = <<x>>
    /\ UNCHANGED <<client, timeout>>

DoDele(srv) ==
    /\ Ready
    /\ \E x \in Exchanges(srv, "DELE", conn, timeout) :
         /\ Returns("Dele", Dele(Fresh(conn), timeout, x.rep))
         /\ reply' = <<x>>
    /\ UNCHANGED <<client, timeout>>

DoNoop(srv) ==
    /\ Ready
    /\ \E x \in Exchanges(srv, "NOOP", conn, timeout) :
         /\ Returns("Noop", Noop(Fresh(conn), timeout, x.rep))
         /\ reply' = <<x>>
    /\ UNCHANGED <<client, timeout>>

DoRset(srv) ==
    /\ Ready
    /\ \E x \in Exchanges(srv, "RSET", conn, timeout) :
         /\ Returns("Rset", Rset(Fresh(conn), timeout, x.rep))
         /\ reply' = <<x>>
    /\ UNCHANGED <<client, timeout>>

DoQuit(srv) ==
    /\ Ready
    /\ \E x \in Exchanges(srv, "QUIT", conn, timeout) :
         /\ Returns("Quit", Quit(Fresh(conn), timeout, x.rep))
         /\ reply' = <<x>>
    /\ UNCHANGED <<client, timeout>>

DoUidl(srv) ==
    /\ Ready
    /\ \E x \in Exchanges(srv, "UIDL n", conn, timeout) :
         /\ Returns("Uidl", Uidl(Fresh(conn), timeout, x.rep))
         /\ reply' = <<x>>
    /\ UNCHANGED <<client, timeout>>

DoUidlAll(srv) ==
    /\ Ready
    /\ \E x \in Exchanges(srv, "UIDL", conn, timeout) :
         /\ Returns("UidlAll", UidlAll(Fresh(conn), timeout, x.rep))
         /\ reply' = <<x>>
    /\ UNCHANGED <<client, timeout>>

Next ==
    \/ DoNewClient
    \/ UseTimeouts
    \/ DoUser(Session)
    \/ DoPass(Session)
    \/ DoAuth(Session)
    \/ DoStat(Session)
    \/ DoList(Session)
    \/ DoListAll(Session)
    \/ DoRetr(Session)
    \/ DoDele(Session)
    \/ DoNoop(Session)
    \/ DoRset(Session)
    \/ DoQuit(Session)
    \/ DoUidl(Session)
    \/ DoUidlAll(Session)

Spec == Init /\ [][Next]_vars

----------------------------------------------------------------------------
(* The framer alone: a Connection over a stream that already holds what the *)
(* server sent, read with ReadResponse and ReadMultiLines.                  *)

MarkerPrefixes ==
    {<<>>, <<"+">>, <<"+","O">>, okResponse,
     <<"-">>, <<"-","E">>, <<"-","E","R">>, <<"-","E","R","R">>}
TextChars == {ch_sp, "a", "."}

\* Status lines: a whole or cut marker, then up to MaxText more characters
FramerLines ==
    {p \o x : p \in MarkerPrefixes, x \in SeqsUpTo(TextChars, MaxText)}

BodyChars == {".", "a"}

\* Bodies as the server means them, before byte-stuffing
FramerBodies == SeqsUpTo(SeqsUpTo(BodyChars, MaxBodyLineLen), MaxBody)

FramerInit ==
    /\ client = "none"
    /\ timeout = 0
    /\ \E eol \in EolStyles :
         \/ \E l \in FramerLines :
              \E x \in Transmissions(<<Wire(l, eol)>>, FALSE) :
                 /\ conn = NewConn(x.now, x.drop)
                 /\ reply = <<[status |-> <<l>>, body |-> <<>>, rep |-> x]>>
         \/ \E b \in FramerBodies :
              \E x \in Transmissions(WireBody(b, eol), FALSE) :
                 /\ conn = NewConn(x.now, x.drop)
                 /\ reply = <<[status |-> <<>>, body |-> <<b>>, rep |-> x]>>
    /\ ret = NoRet
    /\ calls = 0

FramerReady == client = "none" /\ ret.st = "ok" /\ calls < MaxCalls

DoReadResponse ==
    /\ FramerReady
    /\ LET out == ReadResponse(Fresh(conn))
       IN  Returns("ReadResponse", Out(out.c, out.st, out.err, out.result, <<>>))
    /\ UNCHANGED <<client, timeout, reply>>

DoReadMultiLines ==
    /\ FramerReady
    /\ LET out == ReadMultiLines(Fresh(conn))
       IN  Returns("ReadMultiLines", Out(out.c, out.st, out.err, out.lines, <<>>))
    /\ UNCHANGED <<client, timeout, reply>>

FramerNext == DoReadResponse \/ DoReadMultiLines

SpecFramer == FramerInit /\ [][FramerNext]_vars

----------------------------------------------------------------------------
(* Properties of the session (Spec) *)

\* The step is a call of a command method, which has returned or not
CallStep == calls' = calls + 1

\* The lines of exchange x all reached the client in time
Delivered(x) == x.rep.now # <<>> /\ x.rep.late = <<>> /\ ~x.rep.drop

\* The status line of exchange x reached the client
Answered(x) == x.status # <<>> /\ x.rep.now # <<>>

\* C1: a call of Auth hands USER to the stream first and at most PASS after
\* it.  When the call finds no unread line on the wire, PASS is handed over
\* exactly when the reply to USER arrived and was positive; otherwise USER
\* is the only command sent and a returning Auth returns the error of USER:
\* the text of the negative reply, or the transport error.
C1_AuthStopsAfterFailedUser ==
    ret.op = "Auth" =>
        /\ Len(ret.cmds) \in {1, 2}
        /\ ret.cmds[1] = "USER"
        /\ Len(ret.cmds) = 2 => ret.cmds[2] = "PASS"
        /\ ret.pending = 0 =>
             IF Answered(reply[1]) /\ Positive(reply[1].status[1])
             THEN ret.cmds = <<"USER", "PASS">>
             ELSE /\ ret.cmds = <<"USER">>
                  /\ ret.st = "ok" =>
                       IF Answered(reply[1])
                       THEN ret.err = ErrorsNew(From(reply[1].status[1], 5))
                       ELSE IsTransport(ret.err)

\* Auth has returned the text of a negative reply to USER, PASS unsent
C1_Witness ==
    /\ ret.op = "Auth" /\ ret.st = "ok" /\ ret.pending = 0
    /\ ret.err = ErrorsNew(<<"n", "o">>)
    /\ ret.cmds = <<"USER">>

\* C2: whenever no method is executing and the stream is open, no deadline
\* is armed on it.
C2_NoDeadlineBetweenCalls ==
    (client = "ready" /\ ret.st = "ok" /\ conn.closes = 0) => ~conn.deadline

\* C3: a call of Quit that returns without error has closed the stream once;
\* one that returns an error has not closed it.  When the call finds no
\* unread line on the wire and the reply to QUIT arrives, it returns without
\* error exactly when that reply is positive.
C3_QuitClosesOnSuccessOnly ==
    [][(CallStep /\ ret'.op = "Quit" /\ ret'.st = "ok") =>
         /\ IF ret'.err = Nil THEN conn'.closes = conn.closes + 1
            ELSE conn'.closes = conn.closes
         /\ (ret'.pending = 0 /\ Answered(reply'[1])) =>
              (ret'.err = Nil <=> Positive(reply'[1].status[1]))]_vars

\* Quit has returned the text of a negative reply and the stream is open
C3_Witness ==
    /\ ret.op = "Quit" /\ ret.st = "ok" /\ ret.pending = 0
    /\ ret.err = ErrorsNew(<<"n", "o">>)
    /\ conn.closes = 0

\* C4: a call that finds the stream open with no unread line, and whose
\* commands each get their one reply in full, never blocks and leaves no
\* line unread, whether it returns or stops in a run-time fault; when it
\* returns, it returns no transport error.  NewClient, finding the greeting
\* alone on the wire, leaves no line unread.
C4_RepliesConsumedExactly ==
    [][/\ (/\ CallStep
           /\ conn.in = <<>> /\ conn.closes = 0 /\ ~conn.broken
           /\ \A i \in 1..Len(reply') : Delivered(reply'[i]))
          => /\ ret'.st # "hang"
             /\ conn'.in = <<>>
             /\ ret'.st = "ok" => ~IsTransport(ret'.err)
       /\ (ret.op = "none" /\ ret'.op = "NewClient" /\ Len(conn.in) = 1)
          => conn'.in = <<>>]_vars

\* ListAll has consumed status line and body and then failed to parse a line
C4_Witness ==
    /\ ret.op = "ListAll" /\ ret.st = "ok" /\ ret.pending = 0
    /\ ret.err = ErrSyntax
    /\ conn.in = <<>> /\ conn.nread = 4

\* C10: a call of Retr that returns an error returns the empty string.
C10_RetrErrorMeansEmptyText ==
    (ret.op = "Retr" /\ ret.st = "ok" /\ ret.err # Nil) => ret.val = <<>>

----------------------------------------------------------------------------
(* Properties of the framer (SpecFramer) *)

\* The first call was a ReadResponse and a status line was there to read
StatusRead == calls = 1 /\ ret.op = "ReadResponse" /\ Answered(reply[1])

\* That status line, as the server composed it
TheStatus == reply[1].status[1]

\* A line '<negmarker> <text>': the marker -ERR, a space, a text
NegativeReply(s) == Len(s) >= 5 /\ Upto(s, 5) = L_ERR \o <<ch_sp>>

\* C5: ReadResponse on a negative reply '<negmarker> <text>' returns <text>
\* as the error and the empty string as the result.
C5_NegativeReplyGivesNoResult ==
    (StatusRead /\ NegativeReply(TheStatus)) =>
        /\ ret.st = "ok"
        /\ ret.err = ErrorsNew(From(TheStatus, 5))
        /\ ret.val = <<>>

\* C6: ReadResponse on a line shorter than the marker returns an error.
C6_ShortLineIsAnError ==
    (StatusRead /\ Len(TheStatus) < 3) => (ret.st = "ok" /\ ret.err # Nil)

\* C7: ReadResponse on '+OK <text>' returns <text>, the line from offset 4
\* on, and no error; on a bare '+OK' it returns the empty string and no
\* error.
C7_PositiveReplyGivesText ==
    StatusRead =>
        /\ TheStatus = okResponse =>
             (ret.st = "ok" /\ ret.err = Nil /\ ret.val = <<>>)
        /\ (Len(TheStatus) >= 4 /\ Upto(TheStatus, 4) = okResponse \o <<ch_sp>>) =>
             (ret.st = "ok" /\ ret.err = Nil /\ ret.val = From(TheStatus, 4))

\* ReadResponse has returned the text of '+OK a.'
C7_Witness ==
    /\ StatusRead /\ TheStatus = okResponse \o <<ch_sp, "a", ".">>
    /\ ret.st = "ok" /\ ret.err = Nil /\ ret.val = <<"a", ".">>

\* The first call was a ReadMultiLines and a stuffed body with its
\* terminator was there to read
BodyRead ==
    /\ calls = 1 /\ ret.op = "ReadMultiLines"
    /\ reply[1].body # <<>>
    /\ Len(reply[1].rep.now) = Len(reply[1].body[1]) + 1

\* That body, as the server meant it before stuffing
TheBody == reply[1].body[1]

\* C8: ReadMultiLines on a stuffed and terminated body returns the lines of
\* the body as they were before stuffing, in order, and no error, and has
\* read up to the terminator and no further.
C8_UnstuffingUndoesStuffing ==
    BodyRead =>
        /\ ret.st = "ok" /\ ret.err = Nil
        /\ ret.val = TheBody
        /\ conn.in = <<>>

\* ReadMultiLines has returned a body whose first line is "." and that has
\* a second line
C8_Witness ==
    /\ BodyRead /\ TheBody = <<endResponse, <<".", "a">>>>
    /\ ret.val = <<endResponse, <<".", "a">>>>

\* C9: ReadMultiLines on a body that the stream cuts before its terminator
\* returns the error and no lines.
C9_ReadErrorMeansNoLines ==
    (/\ calls = 1 /\ ret.op = "ReadMultiLines"
     /\ reply[1].body # <<>> /\ reply[1].rep.drop
     /\ Len(reply[1].rep.now) <= Len(TheBody))
        => (ret.st = "ok" /\ ret.err # Nil /\ ret.val = <<>>)

----------------------------------------------------------------------------
(* One call against a wide server: the client of a session whose earlier    *)
(* calls were NOOPs answered "+OK" makes the last call of the session,      *)
(* a method that parses what the server sent.                               *)

DigitChar(d) == CHOOSE ch \in Digits : DigitVal(ch) = d

\* The server's decimal rendering of a natural number
RECURSIVE Dec(_)
Dec(n) == IF n < 10 THEN <<DigitChar(n)>>
          ELSE Append(Dec(n \div 10), DigitChar(n % 10))

\* A line of two numbers: the status text of STAT, a body line of LIST
Render(n, m) == Dec(n) \o <<ch_sp>> \o Dec(m)

\* The value the caller expects for the number n
Value(n) == <<n \div Half, n % Half>>

SeqNums == {1, 12}
SizeNums == {0, 70000}

L_ERR_Invalid == L_ERR \o <<ch_sp>> \o InvalidServerResponse
L_OK_12 == okResponse \o <<ch_sp, "1", "2">>
L_OK_a_12 == okResponse \o <<ch_sp, "a", ch_sp, "1", "2">>
L_OK_12_a == okResponse \o <<ch_sp, "1", "2", ch_sp, "a">>
L_OK_neg1_12 == okResponse \o <<ch_sp, "-", "1", ch_sp, "1", "2">>
\* 4294967296 is 2^32
L_OK_big_12 ==
    okResponse \o <<ch_sp, "4","2","9","4","9","6","7","2","9","6", ch_sp, "1", "2">>

WideStatus ==
    {okResponse \o <<ch_sp>> \o Render(n, m) : n \in SeqNums, m \in SizeNums}
    \cup {L_OK, L_OK_12, L_OK_a_12, L_OK_12_a, L_OK_neg1_12, L_OK_big_12,
          L_ERR_no, L_ERR_Invalid}

\* Bodies of well-formed "seq size" lines
ListBodies ==
    SeqsUpTo({Render(n, m) : n \in SeqNums, m \in SizeNums}, MaxBody)

\* Message bodies: empty lines, lines that need byte-stuffing, plain lines
TextLines == {<<>>, <<"a">>, <<".">>, <<".", "a">>}
TextBodies == SeqsUpTo(TextLines, MaxBody)

Wide ==
    [S |-> WideStatus,
     B |-> ListBodies \cup TextBodies \cup Session.B,
     E |-> EolStyles]

CallInit ==
    /\ client = "ready"
    /\ timeout \in {0, 1}
    /\ LET x == [status |-> <<L_OK>>, body |-> <<>>,
                 rep |-> [now |-> <<Wire(L_OK, "CRLF")>>, late |-> <<>>,
                          drop |-> FALSE]]
           out == Noop(NewConn(<<>>, FALSE), timeout, x.rep)
       IN  /\ conn = Deliver(out.c)
           /\ ret = [op |-> "Noop", st |-> out.st, err |-> out.err,
                     val |-> out.val, cmds |-> out.cmds, pending |-> 0]
           /\ reply = <<x>>
    /\ calls = MaxCalls - 1

CallNext ==
    \/ DoStat(Wide)
    \/ DoList(Wide)
    \/ DoListAll(Wide)
    \/ DoRetr(Wide)
    \/ DoUidl(Wide)
    \/ DoUidlAll(Wide)

SpecCall == CallInit /\ [][CallNext]_vars

----------------------------------------------------------------------------
(* Properties of one call (SpecCall) *)

\* The status text of line s: what follows the marker and the space
StatusText(s) == IF Positive(s) THEN From(s, 4) ELSE From(s, 5)

\* C11: Stat returns: with no error and the two counts when the reply is
\* positive with two numeric fields, and with an error and two zeros on every
\* other outcome; a positive reply with fewer than two fields is such an
\* outcome and never a run-time fault.
C11_StatReturnsCountsOrZeros ==
    (ret.op = "Stat" /\ ret.pending = 0) =>
        /\ ret.st = "ok"
        /\ ret.err # Nil => ret.val = <<Zero, Zero>>
        /\ Answered(reply[1]) =>
             LET s == reply[1].status[1]
             IN  /\ \A n \in SeqNums, m \in SizeNums :
                       s = okResponse \o <<ch_sp>> \o Render(n, m)
                           => ret.err = Nil /\ ret.val = <<Value(n), Value(m)>>
                 /\ (Positive(s) /\ Len(Fields(StatusText(s))) < 2)
                       => ret.err # Nil

\* C12: when the whole body of a LIST or UIDL listing arrived and ListAll or
\* UidlAll returns an error (a body line did not parse), it returns no
\* descriptors with it: neither the ones parsed so far nor unfilled slots.
C12_ParseFailureDiscardsResults ==
    (/\ ret.op \in {"ListAll", "UidlAll"}
     /\ ret.pending = 0 /\ Delivered(reply[1]) /\ reply[1].body # <<>>
     /\ ret.st = "ok" /\ ret.err # Nil)
        => ret.val = <<>>

----------------------------------------------------------------------------
(* More properties of the session (Spec) *)

\* C13: once a method has returned a transport error, the next command
\* method called on the same client returns a transport error as well.
C13_TransportErrorIsSticky ==
    [][(/\ ret.st = "ok" /\ IsTransport(ret.err)
        /\ CallStep /\ ret'.st = "ok")
           => IsTransport(ret'.err)]_vars

----------------------------------------------------------------------------
(* More properties of one call (SpecCall) *)

\* The call returned an error although the server's positive reply arrived
\* whole: a field of the reply did not parse as a number
ParseFailed ==
    /\ ret.op \in {"Stat", "List", "ListAll", "UidlAll"}
    /\ ret.pending = 0 /\ Delivered(reply[1])
    /\ Positive(reply[1].status[1])
    /\ ret.st = "ok" /\ ret.err # Nil

\* The call returned on a negative reply of the server
Rejected ==
    /\ ret.pending = 0 /\ Answered(reply[1])
    /\ NegativeReply(reply[1].status[1])
    /\ ret.st = "ok"

\* C14: a numeric parsing failure is reported by Stat, List, ListAll and
\* UidlAll alike with the one malformed-response error, and the error
\* returned for a negative reply is never that error, whatever text the
\* server put in the reply.
C14_OneMalformedKind ==
    /\ ParseFailed => ret.err = ErrorsNew(InvalidServerResponse)
    /\ Rejected => ret.err # ErrorsNew(InvalidServerResponse)

----------------------------------------------------------------------------
(* Properties of the session (Spec), continued *)

\* C15: NewClient hands no command to the stream and reads the greeting line
\* and nothing else; a positive greeting gives a usable client and no error,
\* a negative greeting gives no client and the error of its text, and a
\* greeting that never arrives gives no client and a transport error.
C15_NewClientReadsTheGreeting ==
    ret.op = "NewClient" =>
        LET g == reply[1]
        IN  /\ ret.cmds = <<>>
            /\ conn.nread = Len(g.rep.now)
            /\ (Answered(g) /\ Positive(g.status[1]))
                  => ret.st = "ok" /\ ret.err = Nil /\ client = "ready"
            /\ (Answered(g) /\ NegativeReply(g.status[1]))
                  => /\ ret.st = "ok" /\ client = "nil"
                     /\ ret.err = ErrorsNew(StatusText(g.status[1]))
            /\ ~Answered(g)
                  => ret.st = "ok" /\ IsTransport(ret.err) /\ client = "nil"

C15_Witness ==
    /\ ret.op = "NewClient" /\ client = "nil"
    /\ Answered(reply[1]) /\ NegativeReply(reply[1].status[1])

----------------------------------------------------------------------------
(* Properties of one call (SpecCall), continued *)

\* The body the server composed for the last call, when it arrived whole
BodyArrived ==
    ret.pending = 0 /\ Delivered(reply[1]) /\ reply[1].body # <<>>

\* C16: ListAll on a positive reply whose body is n well-formed lines
\* "seq size" returns no error and n descriptors, the i-th with the numbers
\* of the i-th line; the terminator line gives none.
C16_ListAllKeepsWireOrder ==
    (ret.op = "ListAll" /\ BodyArrived /\ reply[1].body[1] \in ListBodies) =>
        LET b == reply[1].body[1]
        IN  /\ ret.st = "ok" /\ ret.err = Nil
            /\ Len(ret.val) = Len(b)
            /\ \A i \in 1..Len(b) :
                 \E n \in SeqNums, m \in SizeNums :
                    /\ b[i] = Render(n, m)
                    /\ ret.val[i] = MessageInfo(Value(n), Value(m), <<>>)

C16_Witness ==
    /\ ret.op = "ListAll" /\ BodyArrived
    /\ reply[1].body[1] = <<Render(12, 70000), Render(1, 0)>>
    /\ Len(ret.val) = 2

\* The pieces of text s between its LF characters
RECURSIVE SplitLFLoop(_, _, _, _)
SplitLFLoop(s, i, cur, acc) ==
    IF i > Len(s) THEN Append(acc, cur)
    ELSE IF s[i] = "\n" THEN SplitLFLoop(s, i + 1, <<>>, Append(acc, cur))
    ELSE SplitLFLoop(s, i + 1, Append(cur, s[i]), acc)

SplitLF(s) == SplitLFLoop(s, 1, <<>>, <<>>)

\* C17: Retr on a positive reply whose body arrived whole returns no error
\* and the lines the server composed (byte-stuffing undone) with exactly one
\* LF between two lines and none after the last, empty lines kept; the text
\* depends on the body only, so it is the same for CRLF and for bare LF line
\* ends on the wire.
C17_RetrJoinsWithOneLF ==
    (ret.op = "Retr" /\ BodyArrived) =>
        LET b == reply[1].body[1]
        IN  /\ ret.st = "ok" /\ ret.err = Nil
            /\ IF b = <<>> THEN ret.val = <<>> ELSE SplitLF(ret.val) = b

\* A body with an empty line and a stuffed line, sent with bare LF line ends
C17_Witness ==
    /\ ret.op = "Retr" /\ BodyArrived
    /\ reply[1].body[1] = <<<<>>, <<".", "a">>>>
    /\ reply[1].rep.now[1] = reply[1].status[1]
    /\ ret.val = <<"\n", ".", "a">>

----------------------------------------------------------------------------
(* Properties of the framer (SpecFramer), continued *)

\* C18: ReadResponse on a negative reply without text, a line of 3 or 4
\* characters that does not start with the positive marker (the bare negative
\* marker is one), returns an error.
C18_BareNegativeMarkerIsAnError ==
    (StatusRead /\ Len(TheStatus) \in {3, 4} /\ ~Positive(TheStatus))
        => (ret.st = "ok" /\ ret.err # Nil)

----------------------------------------------------------------------------
(* Properties of the session (Spec), the deadline *)

\* C19: a command method called while the configured timeout is zero is
\* subject to no deadline, whatever calls came before: it does not return
\* the error of an expired deadline.
C19_NoDeadlineWhenTimeoutIsZero ==
    [][(CallStep /\ timeout = 0 /\ ret'.st = "ok")
          => ret'.err # ErrTimeout]_vars

----------------------------------------------------------------------------
(* Properties of one call (SpecCall), the numbers *)

Nums == SeqNums \cup SizeNums

\* C20: a number that Stat or List returns without error is the decimal
\* value of its field in the positive reply; a field with a minus sign or a
\* value of 2^32 or more has no such value and must give an error.
C20_NumbersAreNotWrapped ==
    (/\ ret.op \in {"Stat", "List"}
     /\ ret.pending = 0 /\ Answered(reply[1]) /\ Positive(reply[1].status[1])
     /\ ret.st = "ok" /\ ret.err = Nil)
        => LET f == Fields(StatusText(reply[1].status[1]))
           IN  \E n \in Nums, m \in Nums :
                  /\ f[2] = Dec(m)
                  /\ IF ret.op = "List" THEN ret.val = <<Value(m)>>
                     ELSE f[1] = Dec(n) /\ ret.val = <<Value(n), Value(m)>>

====
